---- MODULE Spec2Model ----
(***************************************************************************)
(* rustmvc: the request dispatch engine of src/src/lib.rs (route lookup,   *)
(* route rules, middleware chain), the token module of                     *)
(* src/src/authentication.rs, and the authentication middleware and        *)
(* handlers of src/examples/authentication.rs and src/src/controllers.rs.  *)
(***************************************************************************)
EXTENDS Integers, Sequences, FiniteSets, TLC

VARIABLES
    routes,       \* Server.routes: Vec<Route>, in registration order
    middlewares,  \* Server.middlewares: Vec<MiddlewareFn>, in registration order
    started,      \* Server::start has consumed the server
    auth_config,  \* Server.auth_config: Option<Arc<AuthConfig>>
    sres,         \* the last call of Server::generate_token and what it returned
    req,          \* the request line as the transport received it
    inflight,     \* per worker: the locals of its running handle_request call
    ctx,          \* the RequestContext built for the last request
    out,          \* what handle_request did with it
    now,          \* the system clock (Utc::now().timestamp()), in seconds
    tok,          \* the last token generate_token returned
    iss,          \* when, for how long and under which secret it was issued
    vres          \* the last result of validate_token

vars == <<routes, middlewares, started, auth_config, sres, inflight, req, ctx, out, now, tok, iss, vres>>

----------------------------------------------------------------------------
(* Bounds of the model *)

MaxRoutes == 2
MaxMiddlewares == 2
MaxBody == 2
StartTime == 100
Horizon == 64
IssueWindow == 1

(* Validation::default(): seconds of clock skew tolerated on exp *)
Leeway == 60

----------------------------------------------------------------------------
(* authentication.rs: Claims, AuthConfig *)

AppSecret == "123456789"
OtherSecret == "other-secret"
Secrets == {AppSecret, OtherSecret}

\* `exp as usize`: a negative i64 becomes 2^64 + exp, kept as (wrapped, v)
AsUsize(x) == [wrapped |-> x < 0, v |-> x]

\* HS256 as an ideal MAC: the tag names the key and the signed payload
Sign(secret, payload) == <<secret, payload>>

NoClaims == [sub |-> "", roles |-> <<>>, exp |-> AsUsize(0)]

\* a string that is no three-part JWT
NotAToken == [wf |-> FALSE, claims |-> NoClaims, sig |-> Sign("", NoClaims)]

GenerateFirstRole(secret, sub, roles, expires_in_secs, t) ==
    LET claims == [sub |-> sub, roles |-> SubSeq(roles, 1, 1),
                   exp |-> AsUsize(t + expires_in_secs)]
    IN [wf |-> TRUE, claims |-> claims, sig |-> Sign(secret, claims)]

\* Claims { sub, roles, exp: (now + expires_in_secs) as usize }, signed
generate_token(secret, sub, roles, expires_in_secs, t) ==
    LET exp == t + expires_in_secs
        claims == [sub |-> sub, roles |-> roles, exp |-> AsUsize(exp)]
    IN [wf |-> TRUE, claims |-> claims, sig |-> Sign(secret, claims)]

\* exp as the u64 the validation reads is never below t - Leeway when wrapped
ExpNotPassed(exp, t) == exp.wrapped \/ exp.v >= t - Leeway

ValidateExpFirst(secret, token, t) ==
    IF ~token.wf THEN [ok |-> FALSE, err |-> "InvalidToken", claims |-> NoClaims]
    ELSE IF ~ExpNotPassed(token.claims.exp, t)
        THEN [ok |-> FALSE, err |-> "ExpiredSignature", claims |-> NoClaims]
    ELSE IF token.sig # Sign(secret, token.claims)
        THEN [ok |-> FALSE, err |-> "InvalidSignature", claims |-> NoClaims]
    ELSE [ok |-> TRUE, err |-> "", claims |-> token.claims]

\* decode::<Claims>(token, key, &Validation::default()): parse, then the
\* signature, then the exp claim
validate_token(secret, token, t) ==
    IF ~token.wf THEN [ok |-> FALSE, err |-> "InvalidToken", claims |-> NoClaims]
    ELSE IF token.sig # Sign(secret, token.claims)
        THEN [ok |-> FALSE, err |-> "InvalidSignature", claims |-> NoClaims]
    ELSE IF ~ExpNotPassed(token.claims.exp, t)
        THEN [ok |-> FALSE, err |-> "ExpiredSignature", claims |-> NoClaims]
    ELSE [ok |-> TRUE, err |-> "", claims |-> token.claims]

----------------------------------------------------------------------------
(* lib.rs: the data model *)

Rule(tag, roles, limit) == [tag |-> tag, roles |-> roles, limit |-> limit]
Authorize == Rule("Authorize", <<>>, 0)
AllowAnonymous == Rule("AllowAnonymous", <<>>, 0)
Roles(rs) == Rule("Roles", rs, 0)
RequestSizeLimit(n) == Rule("RequestSizeLimit", <<>>, n)

Contains(seq, x) == \E i \in 1..Len(seq) : seq[i] = x

HttpMethod == {"GET", "POST", "PUT", "DELETE", "PATCH", "OPTIONS", "HEAD",
               "TRACE", "CONNECT", "NotSupported"}

NoUser == [some |-> FALSE, name |-> "", roles |-> <<>>]
User(name, roles) == [some |-> TRUE, name |-> name, roles |-> roles]

\* a header value: `text` is whether to_str() succeeds, `parts` its pieces
Piece(lit, t) == [lit |-> lit, t |-> t]
Bearer == Piece("Bearer ", NotAToken)
TokenText(t) == Piece("", t)
Junk == Piece("junk", NotAToken)
NoHeader == [present |-> FALSE, text |-> FALSE, parts |-> <<>>]
Header(parts) == [present |-> TRUE, text |-> TRUE, parts |-> parts]
OpaqueHeader == [present |-> TRUE, text |-> FALSE, parts |-> <<Junk>>]

ActionResult(kind, msg) == [kind |-> kind, msg |-> msg]
NotFound == ActionResult("NotFound", <<>>)

Digits == <<"0", "1", "2", "3", "4", "5", "6", "7", "8", "9">>
RECURSIVE Str(_)
Str(n) == IF n < 10 THEN <<Digits[n + 1]>> ELSE Str(n \div 10) \o <<Digits[(n % 10) + 1]>>

NoCtx == [path |-> "", method |-> "NotSupported", headers |-> NoHeader,
          body |-> <<>>, rules |-> <<>>, user |-> NoUser]

----------------------------------------------------------------------------
(* Handlers: routes::home (examples/authentication.rs) and                 *)
(* HomeController::index (controllers.rs)                                  *)

home(c) ==
    IF c.user.some THEN ActionResult("Ok", <<"Hello, ", c.user.name, "!">>)
    ELSE ActionResult("Ok", <<"Hello, anonymous!">>)

index(c) == ActionResult("View", <<"HomeModel">>)

Handlers == {"home", "index"}

RunAction(action, c) == IF action = "home" THEN home(c) ELSE index(c)

----------------------------------------------------------------------------
(* Middlewares: the default logger of Server::new ("log"), the             *)
(* authentication middleware of examples/authentication.rs ("auth"), and   *)
(* a caller-supplied closure, "rewrite", that calls its continuation and   *)
(* turns the result into Html.                                             *)

StripLeadingBearer(h) ==
    IF ~h.text THEN <<>>
    ELSE IF h.parts # <<>> /\ h.parts[1].lit = "Bearer " THEN Tail(h.parts)
    ELSE h.parts

\* auth_header.to_str().unwrap_or("").replace("Bearer ", "")
BearerStripped(h) ==
    SelectSeq(IF h.text THEN h.parts ELSE <<>>, LAMBDA p : p.lit # "Bearer ")

\* the token a string spells, if it spells one
ParseToken(s) == IF Len(s) = 1 /\ s[1].lit = "" THEN s[1].t ELSE NotAToken

AuthValidation(c, t) ==
    validate_token(AppSecret, ParseToken(BearerStripped(c.headers)), t)

AuthKeepsContext(c, t) == c

\* the context the authentication middleware hands to next
AuthNextCtx(c, t) ==
    IF Contains(c.rules, Authorize)
    THEN LET claims == AuthValidation(c, t).claims
         IN [c EXCEPT !.user = User(claims.sub, claims.roles)]
    ELSE c

AuthSwappedMessages(c, t) ==
    IF c.headers.present THEN ActionResult("UnAuthorized", <<"Missing token">>)
    ELSE ActionResult("UnAuthorized", <<"Invalid token">>)

AuthTellsReason(c, t) ==
    IF c.headers.present THEN ActionResult("UnAuthorized", <<AuthValidation(c, t).err>>)
    ELSE ActionResult("UnAuthorized", <<"Missing token">>)

\* what the authentication middleware returns when it does not call next
AuthReject(c, t) ==
    IF c.headers.present THEN ActionResult("UnAuthorized", <<"Invalid token">>)
    ELSE ActionResult("UnAuthorized", <<"Missing token">>)

AuthCallsNext(c, t) ==
    \/ ~Contains(c.rules, Authorize)
    \/ c.headers.present /\ AuthValidation(c, t).ok

EveryMwCallsNext(mw, c, t) == TRUE

\* whether middleware mw invokes its continuation on context c
MwCallsNext(mw, c, t) ==
    CASE mw = "log" -> TRUE
      [] mw = "rewrite" -> TRUE
      [] mw = "auth" -> AuthCallsNext(c, t)

\* the context it passes to its continuation
MwNextCtx(mw, c, t) == IF mw = "auth" THEN AuthNextCtx(c, t) ELSE c

\* what it returns once its continuation returned r
MwAfter(mw, r) == IF mw = "rewrite" THEN ActionResult("Html", r.msg) ELSE r

\* what it returns without calling its continuation
MwShort(mw, c, t) == AuthReject(c, t)

Ev(ev, pos) == [ev |-> ev, pos |-> pos]

RECURSIVE ComposeForwardFrom(_, _, _)
ComposeForwardFrom(mws, i, chain) ==
    IF i > Len(mws) THEN chain ELSE ComposeForwardFrom(mws, i + 1, <<i>> \o chain)

ComposeForward(mws) == ComposeForwardFrom(mws, 1, <<>>)

\* for mw in self.middlewares.iter().rev(): next = wrap(mw, next)
RECURSIVE ComposeFrom(_, _, _)
ComposeFrom(mws, i, chain) ==
    IF i = 0 THEN chain ELSE ComposeFrom(mws, i - 1, <<i>> \o chain)

\* the composed chain, outermost middleware first (positions in mws)
Compose(mws) == ComposeFrom(mws, Len(mws), <<>>)

\* next(ctx) on the chain from its k-th wrapper inwards; ri is the route
RECURSIVE Invoke(_, _, _, _, _, _, _)
Invoke(mws, chain, k, c, rs, ri, t) ==
    IF k > Len(chain)
    THEN [result |-> RunAction(rs[ri].action, c), trace |-> <<Ev("handler", ri)>>,
          hctx |-> c, ran |-> TRUE]
    ELSE LET pos == chain[k]
             mw == mws[pos]
         IN IF MwCallsNext(mw, c, t)
            THEN LET r == Invoke(mws, chain, k + 1, MwNextCtx(mw, c, t), rs, ri, t)
                 IN [result |-> MwAfter(mw, r.result),
                     trace |-> <<Ev("enter", pos)>> \o r.trace \o <<Ev("exit", pos)>>,
                     hctx |-> r.hctx, ran |-> r.ran]
            ELSE [result |-> MwShort(mw, c, t),
                  trace |-> <<Ev("enter", pos), Ev("exit", pos)>>,
                  hctx |-> NoCtx, ran |-> FALSE]

----------------------------------------------------------------------------
(* Server *)

Route(path, action, method, rules) ==
    [path |-> path, action |-> action, method |-> method, rules |-> rules]

Matches(r, path, method) == r.path = path /\ r.method = method

FindByPathOnly(rs, path, method) ==
    LET S == {i \in 1..Len(rs) : rs[i].path = path}
    IN IF S = {} THEN 0 ELSE CHOOSE i \in S : \A j \in S : i <= j

FindLastMatch(rs, path, method) ==
    LET S == {i \in 1..Len(rs) : Matches(rs[i], path, method)}
    IN IF S = {} THEN 0 ELSE CHOOSE i \in S : \A j \in S : i >= j

\* self.routes.iter().find(|r| r.path == path && r.method == method):
\* the position of the first such route, 0 for None
FindRoute(rs, path, method) ==
    LET S == {i \in 1..Len(rs) : Matches(rs[i], path, method)}
    IN IF S = {} THEN 0 ELSE CHOOSE i \in S : \A j \in S : i <= j

NothingUnsupported(r) == FALSE

\* if route.method == HttpMethod::NotSupported { return NotFound }
IsNotSupported(r) == r.method = "NotSupported"

RECURSIVE FirstAtOrOver(_, _, _)
FirstAtOrOver(rules, k, len) ==
    IF k > Len(rules) THEN 0
    ELSE IF rules[k].tag = "RequestSizeLimit" /\ len >= rules[k].limit THEN k
    ELSE FirstAtOrOver(rules, k + 1, len)

\* the rule loop of handle_request: the first RequestSizeLimit, from the
\* k-th rule on, that a body of len bytes exceeds; 0 when none
RECURSIVE FirstExceeded(_, _, _)
FirstExceeded(rules, k, len) ==
    IF k > Len(rules) THEN 0
    ELSE IF rules[k].tag = "RequestSizeLimit" /\ len > rules[k].limit THEN k
    ELSE FirstExceeded(rules, k + 1, len)

TooLargeMsg(path, limit) ==
    <<"Request to route '", path, "' exceeded the allowed size: ">>
        \o Str(limit) \o <<" bytes">>

\* what handle_request did: the route find returned (found), the route that
\* went on to its rules (matched), the rule that rejected (rule), the phases
\* passed, the value returned, the middleware and handler calls made, and
\* the context the handler was called with
Outcome(found, matched, rule, states, result, trace, hctx, ran) ==
    [found |-> found, matched |-> matched, rule |-> rule, states |-> states,
     result |-> result, trace |-> trace, hctx |-> hctx, ran |-> ran]

NoOut == Outcome(0, 0, 0, <<>>, NotFound, <<>>, NoCtx, FALSE)

handle_request(rs, mws, c, t) ==
    LET i == FindRoute(rs, c.path, c.method) IN
    IF i = 0
    THEN Outcome(0, 0, 0, <<"Received", "NotFound">>, NotFound, <<>>, NoCtx, FALSE)
    ELSE IF IsNotSupported(rs[i])
    THEN Outcome(i, 0, 0, <<"Received", "NotFound">>, NotFound, <<>>, NoCtx, FALSE)
    ELSE LET k == FirstExceeded(rs[i].rules, 1, Len(c.body)) IN
    IF k # 0
    THEN Outcome(i, i, k, <<"Received", "Matched", "Rejected">>,
                 ActionResult("PayloadTooLarge",
                              TooLargeMsg(rs[i].path, rs[i].rules[k].limit)),
                 <<>>, NoCtx, FALSE)
    ELSE LET r == Invoke(mws, Compose(mws), 1, c, rs, i, t)
         IN Outcome(i, i, 0, <<"Received", "Matched", "Dispatched", "Responded">>,
                    r.result, r.trace, r.hctx, r.ran)

\* the method mapping of the request closure in Server::start
MapMethod(raw) ==
    IF raw \in HttpMethod \ {"NotSupported"} THEN raw ELSE "NotSupported"

\* the RequestContext the request closure builds
BuildContext(rs, path, raw, header, body) ==
    LET m == MapMethod(raw)
        i == FindRoute(rs, path, m)
    IN [path |-> path, method |-> m, headers |-> header, body |-> body,
        rules |-> IF i = 0 THEN <<>> ELSE rs[i].rules, user |-> NoUser]

----------------------------------------------------------------------------
(* Inputs *)

Paths == {"/", "/login"}
RawMethods == {"GET", "POST", "PROPFIND"}
Bodies == {[i \in 1..n |-> 0] : n \in 0..MaxBody}

RouteInputs ==
    {Route("/", "home", "GET", <<Authorize>>),
     Route("/login", "index", "POST",
           <<AllowAnonymous, RequestSizeLimit(1), RequestSizeLimit(0)>>),
     Route("/", "index", "GET", <<AllowAnonymous, Authorize>>),
     Route("/", "home", "GET", <<Authorize, Roles(<<"admin">>), RequestSizeLimit(1)>>),
     Route("/", "home", "NotSupported", <<>>)}

MwInputs == {"auth", "rewrite"}

GoodToken(t) == generate_token(AppSecret, "alice", <<"user">>, 60, t)
ForgedToken(t) == generate_token(OtherSecret, "alice", <<"admin">>, 60, t)

\* a token of the application that was issued 100 s ago for 10 s
ExpiredToken(t) == generate_token(AppSecret, "alice", <<"user">>, 10, t - 100)

HeaderInputs(t) ==
    {NoHeader, OpaqueHeader,
     Header(<<Bearer, TokenText(GoodToken(t))>>),
     Header(<<Bearer, TokenText(ForgedToken(t))>>),
     Header(<<Bearer, Junk>>)}

Subjects == {"alice", "bob"}
RoleLists == {<<"user">>, <<"admin", "user">>}
TTLs == {-200, -1, 0, 2, 60}

----------------------------------------------------------------------------
(* State machine *)

\* Option<Arc<AuthConfig>>: None, or Some(config with its secret)
NoAuthConfig == [some |-> FALSE, secret |-> ""]

\* Option<String>
None == [some |-> FALSE, token |-> NotAToken]
Some(token) == [some |-> TRUE, token |-> token]

GenerateWithAppSecret(cfg, claims, expires_in_secs, t) ==
    Some(generate_token(AppSecret, claims.sub, claims.roles, expires_in_secs, t))

\* self.auth_config.as_ref().map(|cfg| cfg.generate_token(sub, roles, ttl))
server_generate_token(cfg, claims, expires_in_secs, t) ==
    IF cfg.some
    THEN Some(generate_token(cfg.secret, claims.sub, claims.roles, expires_in_secs, t))
    ELSE None

NoSres == [called |-> FALSE, sub |-> "", ttl |-> 0, result |-> None]

\* the workers of the HttpServer, each running the request closure
Workers == {"w1", "w2"}

\* the locals of one handle_request call: the context received (ctx), the
\* route found (matched), the composed chain and the wrapper reached (k),
\* the context moved into the next call (cur), the value being returned
Frame(pc, c, cur, matched, chain, k, o) ==
    [pc |-> pc, ctx |-> c, cur |-> cur, matched |-> matched, chain |-> chain,
     k |-> k, result |-> o.result, trace |-> o.trace, states |-> o.states,
     hctx |-> o.hctx, ran |-> o.ran]

Idle == Frame("idle", NoCtx, NoCtx, 0, <<>>, 0, NoOut)

\* no request is being served
NoReq == [path |-> "", method |-> ""]
NoIssue ==
    [issued |-> FALSE, at |-> 0, ttl |-> 0, secret |-> "", sub |-> "", roles |-> <<>>]
NoVres == [done |-> FALSE, secret |-> "", ok |-> FALSE, err |-> "", claims |-> NoClaims]

\* Server::new: no routes, the default logging middleware, no auth config
Init ==
    /\ routes = <<>>
    /\ middlewares = <<"log">>
    /\ started = FALSE
    /\ auth_config = NoAuthConfig
    /\ sres = NoSres
    /\ inflight = [w \in Workers |-> Idle]
    /\ req = NoReq
    /\ ctx = NoCtx
    /\ out = NoOut
    /\ now = StartTime
    /\ tok = NotAToken
    /\ iss = NoIssue
    /\ vres = NoVres

AddRoute(r) ==
    /\ ~started
    /\ Len(routes) < MaxRoutes
    /\ routes' = Append(routes, r)
    /\ UNCHANGED <<auth_config, sres, inflight, middlewares, started, req, ctx, out, now, tok, iss, vres>>

AddMiddleware(mw) ==
    /\ ~started
    /\ Len(middlewares) < 1 + MaxMiddlewares
    /\ middlewares' = Append(middlewares, mw)
    /\ UNCHANGED <<auth_config, sres, inflight, routes, started, req, ctx, out, now, tok, iss, vres>>

Start ==
    /\ ~started
    /\ started' = TRUE
    /\ UNCHANGED <<auth_config, sres, inflight, routes, middlewares, req, ctx, out, now, tok, iss, vres>>

\* the request closure of Server::start: build the context, handle_request
Request(path, raw, header, body) ==
    /\ started
    /\ out = NoOut
    /\ req' = [path |-> path, method |-> raw]
    /\ ctx' = BuildContext(routes, path, raw, header, body)
    /\ out' = handle_request(routes, middlewares, ctx', now)
    /\ UNCHANGED <<auth_config, sres, inflight, routes, middlewares, started, now, tok, iss, vres>>

\* the response is rendered and handed to the transport; the context is dropped
Respond ==
    /\ out # NoOut
    /\ req' = NoReq
    /\ ctx' = NoCtx
    /\ out' = NoOut
    /\ UNCHANGED <<auth_config, sres, inflight, routes, middlewares, started, now, tok, iss, vres>>

Next ==
    \/ \E r \in RouteInputs : AddRoute(r)
    \/ \E mw \in MwInputs : AddMiddleware(mw)
    \/ Start
    \/ \E path \in Paths, raw \in RawMethods, header \in HeaderInputs(now),
          body \in Bodies : Request(path, raw, header, body)
    \/ Respond

Spec == Init /\ [][Next]_vars

(* The token module on its own, under a running clock *)

GenerateToken(secret, sub, roles, ttl) ==
    /\ now <= StartTime + IssueWindow
    /\ tok' = generate_token(secret, sub, roles, ttl, now)
    /\ iss' = [issued |-> TRUE, at |-> now, ttl |-> ttl, secret |-> secret,
               sub |-> sub, roles |-> roles]
    /\ vres' = NoVres
    /\ UNCHANGED <<auth_config, sres, inflight, routes, middlewares, started, req, ctx, out, now>>

Tick ==
    /\ now < StartTime + Horizon
    /\ now' = now + 1
    /\ vres' = NoVres
    /\ UNCHANGED <<auth_config, sres, inflight, routes, middlewares, started, req, ctx, out, tok, iss>>

ValidateToken(secret) ==
    /\ LET v == validate_token(secret, tok, now)
       IN vres' = [done |-> TRUE, secret |-> secret, ok |-> v.ok, err |-> v.err,
                   claims |-> v.claims]
    /\ UNCHANGED <<auth_config, sres, inflight, routes, middlewares, started, req, ctx, out, now, tok, iss>>

NextToken ==
    \/ \E secret \in Secrets, sub \in Subjects, roles \in RoleLists, ttl \in TTLs :
          GenerateToken(secret, sub, roles, ttl)
    \/ Tick
    \/ \E secret \in Secrets : ValidateToken(secret)

SpecToken == Init /\ [][NextToken]_vars

(* The server with the route of examples/dynamic_routes.rs registered *)

\* the params map the request closure fills: from the query string only;
\* the requests of the model carry no query string
params(c) == {}

PatternRoutes ==
    {Route("/say_hello/{name}", "home", "GET", <<>>),
     Route("/say_hello/{name}", "index", "POST", <<RequestSizeLimit(1)>>),
     Route("/say_hello/bob", "index", "POST", <<>>)}

PatternPaths == {"/say_hello/bob", "/say_hello", "/login"}

NextPattern ==
    \/ \E r \in PatternRoutes : AddRoute(r)
    \/ Start
    \/ \E path \in PatternPaths, raw \in RawMethods, body \in Bodies :
          Request(path, raw, NoHeader, body)
    \/ Respond

SpecPattern == Init /\ [][NextPattern]_vars

(* The workers of the running server: handle_request one step at a time,   *)
(* the calls of different workers interleaved                              *)

ConcRoutes ==
    {Route("/", "home", "GET", <<Authorize>>),
     Route("/login", "index", "POST", <<RequestSizeLimit(1)>>)}

ConcRequests(t) ==
    {[path |-> "/", method |-> "GET", header |-> NoHeader, body |-> <<>>],
     [path |-> "/", method |-> "GET",
      header |-> Header(<<Bearer, TokenText(GoodToken(t))>>), body |-> <<>>],
     [path |-> "/login", method |-> "POST", header |-> NoHeader, body |-> <<0, 0>>]}

Received == Outcome(0, 0, 0, <<"Received">>, NotFound, <<>>, NoCtx, FALSE)

FirstWorkerContext(fl, w) == fl["w1"].cur

\* the context moved into next(ctx): a value owned by the worker's call
CallContext(fl, w) == fl[w].cur

SetFrame(w, f) ==
    /\ inflight' = [inflight EXCEPT ![w] = f]
    /\ UNCHANGED <<auth_config, sres, routes, middlewares, started, req, ctx, out, now, tok, iss, vres>>

\* the request closure up to the call of handle_request
Accept(w, r) ==
    /\ started
    /\ inflight[w].pc = "idle"
    /\ LET c == BuildContext(routes, r.path, r.method, r.header, r.body)
       IN SetFrame(w, Frame("find", c, c, 0, <<>>, 0, Received))

\* the route lookup and the NotSupported check
FindStep(w) ==
    /\ inflight[w].pc = "find"
    /\ LET f == inflight[w]
           i == FindRoute(routes, f.ctx.path, f.ctx.method)
       IN IF i = 0 \/ IsNotSupported(routes[i])
          THEN SetFrame(w, [f EXCEPT !.pc = "done", !.states = @ \o <<"NotFound">>])
          ELSE SetFrame(w, [f EXCEPT !.pc = "rules", !.matched = i,
                                     !.states = @ \o <<"Matched">>])

\* the rule loop, then the composition of the chain
RulesStep(w) ==
    /\ inflight[w].pc = "rules"
    /\ LET f == inflight[w]
           rt == routes[f.matched]
           k == FirstExceeded(rt.rules, 1, Len(f.ctx.body))
       IN IF k # 0
          THEN SetFrame(w, [f EXCEPT !.pc = "done", !.states = @ \o <<"Rejected">>,
                   !.result = ActionResult("PayloadTooLarge",
                                           TooLargeMsg(rt.path, rt.rules[k].limit))])
          ELSE SetFrame(w, [f EXCEPT !.pc = "call", !.chain = Compose(middlewares),
                                     !.k = 1, !.states = @ \o <<"Dispatched">>])

\* next(ctx): the k-th wrapper of the chain, or the handler inside the last
CallStep(w) ==
    /\ inflight[w].pc = "call"
    /\ LET f == inflight[w]
           c == CallContext(inflight, w)
       IN IF f.k > Len(f.chain)
          THEN SetFrame(w, [f EXCEPT !.pc = "return", !.k = Len(f.chain),
                   !.result = RunAction(routes[f.matched].action, c),
                   !.trace = @ \o <<Ev("handler", f.matched)>>,
                   !.hctx = c, !.ran = TRUE])
          ELSE LET pos == f.chain[f.k]
                   mw == middlewares[pos]
               IN IF MwCallsNext(mw, c, now)
                  THEN SetFrame(w, [f EXCEPT !.cur = MwNextCtx(mw, c, now),
                           !.k = @ + 1, !.trace = @ \o <<Ev("enter", pos)>>])
                  ELSE SetFrame(w, [f EXCEPT !.pc = "return", !.k = @ - 1,
                           !.result = MwShort(mw, c, now),
                           !.trace = @ \o <<Ev("enter", pos), Ev("exit", pos)>>])

\* a wrapper gets the value of its continuation and returns
ReturnStep(w) ==
    /\ inflight[w].pc = "return"
    /\ LET f == inflight[w]
       IN IF f.k = 0
          THEN SetFrame(w, [f EXCEPT !.pc = "done", !.states = @ \o <<"Responded">>])
          ELSE LET pos == f.chain[f.k]
               IN SetFrame(w, [f EXCEPT !.k = @ - 1,
                        !.result = MwAfter(middlewares[pos], @),
                        !.trace = @ \o <<Ev("exit", pos)>>])

\* the response is rendered and the worker takes the next request
Finish(w) ==
    /\ inflight[w].pc = "done"
    /\ SetFrame(w, Idle)

NextConc ==
    \/ \E r \in ConcRoutes : AddRoute(r)
    \/ \E mw \in MwInputs : AddMiddleware(mw)
    \/ Start
    \/ \E w \in Workers, r \in ConcRequests(now) : Accept(w, r)
    \/ \E w \in Workers : FindStep(w)
    \/ \E w \in Workers : RulesStep(w)
    \/ \E w \in Workers : CallStep(w)
    \/ \E w \in Workers : ReturnStep(w)
    \/ \E w \in Workers : Finish(w)

SpecConc == Init /\ [][NextConc]_vars

(* The server under Authorization values of every shape *)

BearerRoutes ==
    {Route("/", "home", "GET", <<Authorize>>),
     Route("/", "home", "GET", <<>>)}

LowerBearer == Piece("bearer ", NotAToken)

\* a value that carries the token but is not valid text
OpaqueToken(t) == [present |-> TRUE, text |-> FALSE, parts |-> <<TokenText(GoodToken(t))>>]

BearerHeaders(t) ==
    {Header(<<Bearer, TokenText(GoodToken(t))>>),
     Header(<<TokenText(GoodToken(t))>>),
     Header(<<Bearer, Bearer, TokenText(GoodToken(t))>>),
     Header(<<TokenText(GoodToken(t)), Bearer>>),
     Header(<<Bearer, TokenText(ForgedToken(t))>>),
     Header(<<Bearer, Junk, TokenText(GoodToken(t))>>),
     Header(<<LowerBearer, TokenText(GoodToken(t))>>),
     Header(<<Bearer>>),
     OpaqueToken(t)}

NextBearer ==
    \/ \E r \in BearerRoutes : AddRoute(r)
    \/ \E mw \in MwInputs : AddMiddleware(mw)
    \/ Start
    \/ \E header \in BearerHeaders(now) : Request("/", "GET", header, <<>>)
    \/ Respond

SpecBearer == Init /\ [][NextBearer]_vars

(* The server before it is started: its public operations *)

ClaimsInputs ==
    {[sub |-> sub, roles |-> roles, exp |-> AsUsize(0)] :
        sub \in Subjects, roles \in RoleLists}

\* Server::generate_token(&self, claims, expires_in_secs)
ServerGenerateToken(claims, ttl) ==
    /\ ~started
    /\ sres' = [called |-> TRUE, sub |-> claims.sub, ttl |-> ttl,
                result |-> server_generate_token(auth_config, claims, ttl, now)]
    /\ UNCHANGED <<auth_config, routes, middlewares, started, inflight, req, ctx,
                   out, now, tok, iss, vres>>

NextConfig ==
    \/ \E r \in RouteInputs : AddRoute(r)
    \/ \E mw \in MwInputs : AddMiddleware(mw)
    \/ \E claims \in ClaimsInputs, ttl \in TTLs : ServerGenerateToken(claims, ttl)
    \/ Start

SpecConfig == Init /\ [][NextConfig]_vars

----------------------------------------------------------------------------
(* Properties *)

Served == out # NoOut
Dispatched == Served /\ out.states[Len(out.states)] = "Responded"
AnyMatch == \E i \in 1..Len(routes) : Matches(routes[i], ctx.path, ctx.method)
BodyLen == Len(ctx.body)
Mentions(msg, s) == \E i \in 1..Len(msg) : SubSeq(msg, i, i + Len(s) - 1) = s
Entered(p) == Contains(out.trace, Ev("enter", p))
HandlerRan == \E i \in 1..Len(out.trace) : out.trace[i].ev = "handler"

\* r as returned through the middlewares at positions j, j-1, .., 1
RECURSIVE ApplyAfter(_, _, _)
ApplyAfter(mws, j, r) == IF j = 0 THEN r ELSE ApplyAfter(mws, j - 1, MwAfter(mws[j], r))

(* C1 as stated: a route is selected iff some registered route has exactly  *)
(* the request's path and method; otherwise NotFound and no handler runs.   *)
C1_ExactMatchIff ==
    Served =>
        /\ (out.matched # 0) <=> AnyMatch
        /\ out.matched # 0 => Matches(routes[out.matched], ctx.path, ctx.method)
        /\ ~AnyMatch => out.result = NotFound /\ ~out.ran /\ ~HandlerRan

(* C1 amended: a route is selected iff some registered route has exactly    *)
(* the request's path and method and that method is not NotSupported; the   *)
(* selected route is the first such route in registration order; in every   *)
(* other case the result is NotFound, never another kind, and neither a     *)
(* handler nor a middleware runs.                                           *)
C1_FirstExactMatch ==
    Served =>
        /\ (out.matched # 0) <=> (AnyMatch /\ ctx.method # "NotSupported")
        /\ out.matched # 0 =>
              /\ Matches(routes[out.matched], ctx.path, ctx.method)
              /\ \A j \in 1..(out.matched - 1) :
                    ~Matches(routes[j], ctx.path, ctx.method)
        /\ out.matched = 0 =>
              out.result = NotFound /\ ~out.ran /\ out.trace = <<>>

C1_Witness ==
    /\ Served
    /\ out.matched # 0
    /\ out.ran
    /\ \E j \in 1..Len(routes) :
          routes[j].path = ctx.path /\ routes[j].method # ctx.method

\* the calls a chain of n middlewares around the handler of route ri makes
\* when every middleware calls its continuation
NestedTrace(n, ri) ==
    [i \in 1..(2 * n + 1) |->
        IF i <= n THEN Ev("enter", i)
        ELSE IF i = n + 1 THEN Ev("handler", ri)
        ELSE Ev("exit", 2 * n + 2 - i)]

(* C2: when every middleware calls its continuation, the middlewares begin *)
(* in registration order, the handler runs innermost, and the middlewares  *)
(* finish in reverse registration order.                                   *)
C2_NestedOrder ==
    (Served /\ out.ran) => out.trace = NestedTrace(Len(middlewares), out.matched)

C2_Witness ==
    /\ Served
    /\ out.ran
    /\ Len(middlewares) = 3
    /\ middlewares[2] # middlewares[3]

\* the first middleware that, given this request, answers without calling its
\* continuation; 0 when every middleware calls it
FirstRefusing ==
    LET S == {p \in 1..Len(middlewares) :
                 middlewares[p] = "auth" /\ ~AuthCallsNext(ctx, now)}
    IN IF S = {} THEN 0 ELSE CHOOSE p \in S : \A q \in S : p <= q

(* C3: when the middleware at position i answers without invoking its      *)
(* continuation, no later middleware and no handler runs, and its answer,  *)
(* as transformed by the middlewares before i, is the final result.        *)
C3_ShortCircuit ==
    (Dispatched /\ FirstRefusing # 0) =>
        /\ \A e \in 1..Len(out.trace) :
              out.trace[e].ev # "handler" /\ out.trace[e].pos <= FirstRefusing
        /\ ~out.ran
        /\ Entered(FirstRefusing)
        /\ out.result =
              ApplyAfter(middlewares, FirstRefusing - 1, AuthReject(ctx, now))

C3_Witness ==
    /\ Dispatched
    /\ FirstRefusing # 0
    /\ FirstRefusing < Len(middlewares)
    /\ out.result.kind = "UnAuthorized"

MatchedRules == routes[out.matched].rules
SizeRules(rules) == {k \in 1..Len(rules) : rules[k].tag = "RequestSizeLimit"}
TooLarge == out.result.kind = "PayloadTooLarge"

(* C4 as stated: on a matched route carrying RequestSizeLimit(n), a body    *)
(* longer than n yields PayloadTooLarge with a message naming the route     *)
(* path and n, whatever the Authorization header; a body of at most n bytes *)
(* is not rejected by that rule.                                            *)
C4_MessageNamesN ==
    (Served /\ out.matched # 0) =>
        \A k \in SizeRules(MatchedRules) :
            LET n == MatchedRules[k].limit IN
            /\ BodyLen > n =>
                  /\ TooLarge
                  /\ Mentions(out.result.msg, <<routes[out.matched].path>>)
                  /\ Mentions(out.result.msg, Str(n))
            /\ BodyLen <= n => out.rule # k

(* C4 amended: a body longer than n yields PayloadTooLarge, whatever the    *)
(* Authorization header, before any middleware or handler runs; the message *)
(* names the route path and the limit of the first RequestSizeLimit of the  *)
(* rule list that the body exceeds (n itself when that is the rule at       *)
(* hand); a body of at most n bytes is not rejected by that rule.           *)
C4_FirstExceededLimit ==
    (Served /\ out.matched # 0) =>
        \A k \in SizeRules(MatchedRules) :
            LET n == MatchedRules[k].limit IN
            /\ BodyLen > n =>
                  /\ TooLarge
                  /\ out.rule \in SizeRules(MatchedRules)
                  /\ out.rule <= k
                  /\ BodyLen > MatchedRules[out.rule].limit
                  /\ \A j \in SizeRules(MatchedRules) :
                        j < out.rule => BodyLen <= MatchedRules[j].limit
                  /\ Mentions(out.result.msg, <<routes[out.matched].path>>)
                  /\ Mentions(out.result.msg, Str(MatchedRules[out.rule].limit))
                  /\ out.trace = <<>> /\ ~out.ran
            /\ BodyLen <= n => out.rule # k

C4_Witness ==
    /\ Served
    /\ TooLarge
    /\ Contains(MatchedRules, Authorize)
    /\ Contains(middlewares, "auth")
    /\ ctx.headers = Header(<<Bearer, TokenText(GoodToken(now))>>)
    /\ BodyLen = MatchedRules[out.rule].limit + 1

(* C5: a request to a route whose rules contain AllowAnonymous is never     *)
(* answered Unauthorized, with or without an Authorization header, also     *)
(* when the rules contain Authorize as well.                                *)
C5_AllowAnonymousNeverUnauthorized ==
    (Served /\ out.matched # 0 /\ Contains(MatchedRules, AllowAnonymous)) =>
        out.result.kind # "UnAuthorized"

\* the first registered authentication middleware, 0 when there is none
FirstAuth ==
    LET S == {p \in 1..Len(middlewares) : middlewares[p] = "auth"}
    IN IF S = {} THEN 0 ELSE CHOOSE p \in S : \A q \in S : p <= q

Unauthorized(text) == ActionResult("UnAuthorized", <<text>>)
NeedsAuth == Contains(MatchedRules, Authorize) /\ ~Contains(MatchedRules, AllowAnonymous)
Verified == ctx.headers.present /\ AuthValidation(ctx, now).ok

Greeting(name) == ActionResult("Ok", <<"Hello, ", name, "!">>)
VerifiedUser ==
    LET claims == AuthValidation(ctx, now).claims IN User(claims.sub, claims.roles)

Intersects(a, b) == \E i \in 1..Len(a) : Contains(b, a[i])
RolesRules == {k \in 1..Len(MatchedRules) : MatchedRules[k].tag = "Roles"}

(* C10: on a route carrying Roles(set), a request with a populated identity *)
(* reaches the handler only if the identity's roles intersect the set;      *)
(* otherwise the result is Forbidden and the handler is not invoked.        *)
C10_RolesEnforced ==
    (Dispatched /\ FirstAuth # 0 /\ Contains(MatchedRules, Authorize) /\ Verified) =>
        \A k \in RolesRules :
            /\ out.ran => Intersects(VerifiedUser.roles, MatchedRules[k].roles)
            /\ ~Intersects(VerifiedUser.roles, MatchedRules[k].roles) =>
                  out.result.kind = "Forbidden" /\ ~out.ran

(* C8: a token issued with ttl = t >= 0 verifies under the issuing secret   *)
(* at the instant of issue, and fails with ExpiredSignature at every        *)
(* instant later than issue + t.                                            *)
C8_ExpiresAtTtl ==
    (vres.done /\ iss.issued /\ iss.ttl >= 0 /\ vres.secret = iss.secret) =>
        /\ now = iss.at => vres.ok
        /\ now > iss.at + iss.ttl => ~vres.ok /\ vres.err = "ExpiredSignature"

(* C9: a token issued under one secret and verified under another fails    *)
(* with InvalidSignature, whatever its subject, roles and expiry, also when *)
(* it has expired.                                                          *)
C9_WrongSecretBadSignature ==
    (vres.done /\ iss.issued /\ vres.secret # iss.secret) =>
        ~vres.ok /\ vres.err = "InvalidSignature"

C9_Witness ==
    /\ vres.done
    /\ iss.issued
    /\ vres.secret # iss.secret
    /\ ~tok.claims.exp.wrapped
    /\ tok.claims.exp.v < now - Leeway
    /\ vres.err = "InvalidSignature"

----------------------------------------------------------------------------
\* the segments of the paths the model uses
PathSegments(p) ==
    CASE p = "/say_hello/{name}" -> <<"say_hello", "{name}">>
      [] p = "/say_hello/bob" -> <<"say_hello", "bob">>
      [] p = "/say_hello" -> <<"say_hello">>
      [] p = "/login" -> <<"login">>
      [] OTHER -> <<>>

IsPlaceholder(seg) == seg = "{name}"

PatternMatches(pattern, path) ==
    LET ps == PathSegments(pattern)
        qs == PathSegments(path)
    IN /\ Len(ps) = Len(qs)
       /\ \A i \in 1..Len(ps) : IsPlaceholder(ps[i]) \/ ps[i] = qs[i]

Captures(pattern, path) ==
    LET ps == PathSegments(pattern)
        qs == PathSegments(path)
    IN {<<"name", qs[i]>> : i \in {j \in 1..Len(ps) : IsPlaceholder(ps[j])}}

PatternRoute ==
    {i \in 1..Len(routes) :
        /\ routes[i].method = ctx.method
        /\ routes[i].method # "NotSupported"
        /\ PatternMatches(routes[i].path, ctx.path)}

(* C11: a route whose path has a placeholder segment matches every request *)
(* path with the same number of segments and equal literal segments: the    *)
(* request is not answered NotFound, and when the handler runs it sees the  *)
(* placeholder's segment in its parameters.                                 *)
C11_PlaceholderMatches ==
    (Served /\ PatternRoute # {}) =>
        /\ out.found # 0
        /\ out.result # NotFound
        /\ out.ran =>
              \E i \in PatternRoute : Captures(routes[i].path, ctx.path) \subseteq params(out.hctx)

----------------------------------------------------------------------------
\* the earliest registered route with the request's path and method
IsEarliest(i) ==
    /\ Matches(routes[i], ctx.path, ctx.method)
    /\ \A j \in 1..(i - 1) : ~Matches(routes[j], ctx.path, ctx.method)

(* C12: when several routes are registered under the same path and method, *)
(* the earliest registered one serves the request: the context carries its *)
(* rules, the dispatcher evaluates its rules, and the handler invoked is   *)
(* its handler; a later duplicate is never reached.                        *)
C12_FirstRegisteredServes ==
    Served =>
        \A i \in 1..Len(routes) : IsEarliest(i) =>
            /\ out.found = i
            /\ ctx.rules = routes[i].rules
            /\ out.rule # 0 =>
                  /\ out.rule \in SizeRules(routes[i].rules)
                  /\ BodyLen > routes[i].rules[out.rule].limit
                  /\ out.result = ActionResult("PayloadTooLarge",
                        TooLargeMsg(routes[i].path, routes[i].rules[out.rule].limit))
            /\ (out.rule = 0 /\ ctx.method # "NotSupported") =>
                  \A k \in SizeRules(routes[i].rules) : BodyLen <= routes[i].rules[k].limit
            /\ \A e \in 1..Len(out.trace) :
                  out.trace[e].ev = "handler" => out.trace[e].pos = i
            /\ out.ran =>
                  /\ out.hctx.rules = routes[i].rules
                  /\ out.result = ApplyAfter(middlewares, Len(middlewares),
                                             RunAction(routes[i].action, out.hctx))

C12_Witness ==
    /\ Served
    /\ out.ran
    /\ Len(routes) = 2
    /\ Matches(routes[2], ctx.path, ctx.method)
    /\ IsEarliest(1)
    /\ routes[1].action # routes[2].action
    /\ routes[1].rules # routes[2].rules
    /\ out.result = ApplyAfter(middlewares, Len(middlewares),
                               RunAction(routes[1].action, out.hctx))
    /\ out.result # ApplyAfter(middlewares, Len(middlewares),
                               RunAction(routes[2].action, out.hctx))

----------------------------------------------------------------------------
RecognisedMethods ==
    {"GET", "POST", "PUT", "DELETE", "PATCH", "CONNECT", "OPTIONS", "HEAD", "TRACE"}

(* C13: a request whose method is none of the nine recognised methods is   *)
(* given the method NotSupported and is answered NotFound without any      *)
(* handler or middleware running, also when a route is registered at its   *)
(* path under NotSupported.                                                *)
C13_UnrecognisedMethodNotFound ==
    (Served /\ req.method \notin RecognisedMethods) =>
        /\ ctx.method = "NotSupported"
        /\ out.result = NotFound
        /\ out.matched = 0
        /\ ~out.ran
        /\ ~HandlerRan
        /\ out.trace = <<>>

C13_Witness ==
    /\ Served
    /\ req.method = "PROPFIND"
    /\ out.found # 0
    /\ routes[out.found].path = req.path
    /\ routes[out.found].method = "NotSupported"
    /\ out.result = NotFound

----------------------------------------------------------------------------
\* the default logging middleware is the outermost call of the request
LoggerWraps ==
    /\ middlewares[1] = "log"
    /\ out.trace # <<>>
    /\ out.trace[1] = Ev("enter", 1)
    /\ out.trace[Len(out.trace)] = Ev("exit", 1)
    /\ \A e \in 2..(Len(out.trace) - 1) : out.trace[e] # Ev("enter", 1)

(* C14 as stated: the default logging middleware wraps the evaluation of    *)
(* every request that matched a route, so it is invoked for every rule      *)
(* rejection, PayloadTooLarge included, not only when the handler is        *)
(* reached.                                                                 *)
C14_LoggerSeesEveryRejection ==
    (Served /\ out.matched # 0) => LoggerWraps

(* C14 amended: the default logging middleware is invoked exactly for the   *)
(* requests that pass the route lookup and the size rules; it is then the   *)
(* outermost call, invoked once, and the value it receives from the rest of *)
(* the chain is the final result, also when a later middleware rejects the  *)
(* request without reaching the handler. A request rejected with            *)
(* PayloadTooLarge, like one answered NotFound, invokes no middleware.      *)
C14_LoggerWrapsDispatched ==
    Served =>
        /\ Entered(1) <=> Dispatched
        /\ out.rule # 0 => TooLarge /\ out.trace = <<>>
        /\ Dispatched =>
              /\ LoggerWraps
              /\ out.result =
                    Invoke(middlewares, Compose(middlewares), 2, ctx, routes,
                           out.matched, now).result

C14_Witness ==
    /\ Dispatched
    /\ LoggerWraps
    /\ ~out.ran
    /\ out.result.kind = "UnAuthorized"
    /\ Len(middlewares) = 3

----------------------------------------------------------------------------
\* the ways a rule of the matched route can fail for the request
SizeFails == \E k \in SizeRules(MatchedRules) : BodyLen > MatchedRules[k].limit
AuthFails == NeedsAuth /\ ~Verified
RolesFail ==
    /\ Verified
    /\ \E k \in RolesRules : ~Intersects(VerifiedUser.roles, MatchedRules[k].roles)

(* C15: whenever a rule of the matched route fails (authentication, roles or *)
(* body size), the request goes from Matched to Rejected with a rejection    *)
(* response and the chain is never built: no registered middleware other     *)
(* than the default logger, and no handler, is invoked.                      *)
C15_RuleFailureRejects ==
    (Served /\ out.matched # 0 /\ (SizeFails \/ AuthFails \/ RolesFail)) =>
        /\ out.states = <<"Received", "Matched", "Rejected">>
        /\ out.result.kind \in {"UnAuthorized", "Forbidden", "PayloadTooLarge"}
        /\ \A p \in 2..Len(middlewares) : ~Entered(p)
        /\ ~out.ran
        /\ ~HandlerRan

----------------------------------------------------------------------------
ResponseKinds ==
    {"Html", "View", "Redirect", "File", "NotFound", "PayloadTooLarge",
     "UnAuthorized", "Forbidden", "Ok", "BadRequest"}

PhasePaths ==
    {<<"Received", "NotFound">>,
     <<"Received", "Matched", "Rejected">>,
     <<"Received", "Matched", "Dispatched", "Responded">>}

Selected(i) == IsEarliest(i) /\ routes[i].method # "NotSupported"

(* C16: every request the transport hands over, whatever its path, method, *)
(* Authorization header (also one that is not text) and body, ends with    *)
(* exactly one result of a kind of ActionResult, and passes the phases     *)
(* Received, then NotFound or Matched, then Rejected or Dispatched, then   *)
(* Responded, each at most once: NotFound exactly when no route is         *)
(* selected, Rejected exactly when a size rule of the selected route       *)
(* fails, and Dispatched and Responded in every other case.                *)
C16_OneResponseOnePath ==
    (req # NoReq) =>
        /\ Served
        /\ ctx.path = req.path
        /\ out.result.kind \in ResponseKinds
        /\ out.states \in PhasePaths
        /\ \A i, j \in 1..Len(out.states) : i # j => out.states[i] # out.states[j]
        /\ (out.states = <<"Received", "NotFound">>) <=>
              ~(\E i \in 1..Len(routes) : Selected(i))
        /\ \A i \in 1..Len(routes) : Selected(i) =>
              /\ (out.states = <<"Received", "Matched", "Rejected">>) <=>
                    (\E k \in SizeRules(routes[i].rules) :
                        BodyLen > routes[i].rules[k].limit)
              /\ out.states[Len(out.states)] = "Rejected" =>
                    out.result.kind = "PayloadTooLarge" /\ out.trace = <<>>
              /\ out.states[Len(out.states)] = "Responded" => out.trace # <<>>
        /\ out.states[Len(out.states)] = "NotFound" =>
              out.result = NotFound /\ out.trace = <<>>

C16_Witness ==
    /\ req # NoReq
    /\ ctx.headers = OpaqueHeader
    /\ Dispatched
    /\ FirstAuth # 0
    /\ out.result = Unauthorized("Invalid token")

----------------------------------------------------------------------------
\* Authorization values whose token fails verification, for each reason
FailingHeaders(t) ==
    {OpaqueHeader,
     Header(<<Bearer, Junk>>),
     Header(<<Bearer, TokenText(ForgedToken(t))>>),
     Header(<<Bearer, TokenText(ExpiredToken(t))>>)}

WithHeader(h) == [ctx EXCEPT !.headers = h]
FailureOf(h) == AuthValidation(WithHeader(h), now).err

(* C17: two requests to the same route with Authorize that differ only in  *)
(* the reason why the bearer token fails verification (not a token, wrong  *)
(* signature, expired) get the same response and cause the same calls;     *)
(* when the authentication middleware verifies the token, that response is *)
(* the one Unauthorized("Invalid token"), as returned through the          *)
(* middlewares before it.                                                  *)
C17_FailureReasonHidden ==
    (Served /\ out.matched # 0 /\ Contains(ctx.rules, Authorize)
        /\ ctx.headers.present /\ ~Verified) =>
        /\ \A h \in FailingHeaders(now) :
              LET other == handle_request(routes, middlewares, WithHeader(h), now)
              IN /\ FailureOf(h) \in {"InvalidToken", "InvalidSignature", "ExpiredSignature"}
                 /\ other.result = out.result
                 /\ other.trace = out.trace
                 /\ other.states = out.states
        /\ (Dispatched /\ FirstAuth # 0) =>
              out.result =
                  ApplyAfter(middlewares, FirstAuth - 1, Unauthorized("Invalid token"))

C17_Witness ==
    /\ Dispatched
    /\ FirstAuth # 0
    /\ Contains(ctx.rules, Authorize)
    /\ ctx.headers.present
    /\ FailureOf(ctx.headers) = "InvalidSignature"
    /\ \E h1, h2 \in FailingHeaders(now) :
          /\ FailureOf(h1) = "InvalidToken"
          /\ FailureOf(h2) = "ExpiredSignature"
    /\ out.result = Unauthorized("Invalid token")

----------------------------------------------------------------------------
\* what the request of worker w gets when it is dispatched alone
Alone(w) == handle_request(routes, middlewares, inflight[w].ctx, now)

SameAsAlone ==
    \A w \in Workers : inflight[w].pc = "done" =>
        /\ inflight[w].result = Alone(w).result
        /\ inflight[w].trace = Alone(w).trace
        /\ inflight[w].states = Alone(w).states
        /\ inflight[w].ran = Alone(w).ran
        /\ inflight[w].ran => inflight[w].hctx = Alone(w).hctx

RegistryFrozen == started => (routes' = routes /\ middlewares' = middlewares)

(* C18: once the server has started, the route list and the middleware list *)
(* are never modified, and under every interleaving of the requests being   *)
(* served each request gets the response, the phases and the sequence of    *)
(* middleware and handler calls it gets when it is dispatched alone.        *)
C18_ConcurrentAsAlone == [](SameAsAlone) /\ [][RegistryFrozen]_vars

C18_Witness ==
    /\ started
    /\ Len(middlewares) = 3
    /\ inflight["w1"].pc = "done"
    /\ inflight["w1"].ran
    /\ inflight["w2"].pc = "return"
    /\ inflight["w2"].result.kind = "UnAuthorized"
    /\ inflight["w1"].ctx.path = inflight["w2"].ctx.path
    /\ inflight["w1"].ctx # inflight["w2"].ctx

----------------------------------------------------------------------------
(* C19: a token issued for subject s and role list r with a ttl above zero, *)
(* when verified under the issuing secret before its expiry, verifies and   *)
(* returns exactly s and r, the roles in the order given.                   *)
C19_RoundTrip ==
    (vres.done /\ iss.issued /\ iss.ttl > 0 /\ vres.secret = iss.secret
        /\ now < iss.at + iss.ttl) =>
        /\ vres.ok
        /\ vres.claims.sub = iss.sub
        /\ vres.claims.roles = iss.roles

C19_Witness ==
    /\ vres.done
    /\ vres.ok
    /\ iss.ttl > 0
    /\ vres.secret = iss.secret
    /\ now > iss.at
    /\ now < iss.at + iss.ttl
    /\ iss.sub = "bob"
    /\ Len(iss.roles) = 2
    /\ vres.claims.sub = "bob"
    /\ vres.claims.roles = <<"admin", "user">>

----------------------------------------------------------------------------
(* C20: the expiry a token carries is its issuance time plus the ttl, for   *)
(* every ttl, zero and negative included; a token whose expiry lies at or   *)
(* before its issuance, or before the epoch, never verifies.                *)
C20_ExpiryIsIssuancePlusTtl ==
    iss.issued =>
        /\ ~tok.claims.exp.wrapped
        /\ tok.claims.exp.v = iss.at + iss.ttl
        /\ (iss.ttl < 0 /\ vres.done /\ vres.secret = iss.secret) => ~vres.ok

----------------------------------------------------------------------------
\* some middleware, the default logger included, was called for the request
AnyMiddlewareRan == \E p \in 1..Len(middlewares) : Entered(p)

(* C21: when no registered route has the request's path and method, the    *)
(* result is NotFound and no middleware is invoked, neither the default    *)
(* logger nor an authentication middleware; a middleware is invoked only   *)
(* for a request that matched a route and whose body exceeds none of that  *)
(* route's size limits.                                                    *)
C21_NotFoundRunsNoMiddleware ==
    Served =>
        /\ ~AnyMatch =>
              /\ out.result = NotFound
              /\ out.trace = <<>>
              /\ ~AnyMiddlewareRan
        /\ AnyMiddlewareRan =>
              \E i \in 1..Len(routes) :
                  /\ IsEarliest(i)
                  /\ \A k \in SizeRules(routes[i].rules) :
                        BodyLen <= routes[i].rules[k].limit

C21_Witness ==
    /\ Served
    /\ ~AnyMatch
    /\ \E i \in 1..Len(routes) :
          routes[i].path = ctx.path /\ routes[i].method # ctx.method
    /\ Len(middlewares) = 3
    /\ Contains(middlewares, "auth")
    /\ ctx.headers = NoHeader
    /\ out.result = NotFound
    /\ out.trace = <<>>

----------------------------------------------------------------------------
\* the header value without its "Bearer " pieces; empty when it is not text
RECURSIVE WithoutBearer(_)
WithoutBearer(parts) ==
    IF parts = <<>> THEN <<>>
    ELSE IF Head(parts).lit = "Bearer " THEN WithoutBearer(Tail(parts))
    ELSE <<Head(parts)>> \o WithoutBearer(Tail(parts))

Remainder == IF ctx.headers.text THEN WithoutBearer(ctx.headers.parts) ELSE <<>>

\* the remainder spells one token, and that token verifies
RemainderVerifies ==
    /\ Len(Remainder) = 1
    /\ Remainder[1].lit = ""
    /\ validate_token(AppSecret, Remainder[1].t, now).ok

AuthReached == Dispatched /\ FirstAuth # 0 /\ Contains(ctx.rules, Authorize)

(* C22: the string the authentication middleware verifies is the            *)
(* Authorization value with every "Bearer " removed, the empty string when  *)
(* the value is not text: the request is let through, with the identity of  *)
(* the token, exactly when that remainder is a token that verifies, whether *)
(* or not the value has the form "Bearer <token>".                          *)
C22_EveryBearerRemoved ==
    (AuthReached /\ ctx.headers.present) =>
        /\ out.ran <=> RemainderVerifies
        /\ out.ran =>
              out.hctx.user = User(Remainder[1].t.claims.sub, Remainder[1].t.claims.roles)
        /\ ~out.ran =>
              out.result =
                  ApplyAfter(middlewares, FirstAuth - 1, Unauthorized("Invalid token"))

C22_Witness ==
    /\ AuthReached
    /\ ctx.headers.text
    /\ Len(ctx.headers.parts) = 3
    /\ ctx.headers.parts[1] = Bearer
    /\ ctx.headers.parts[2] = Bearer
    /\ out.ran
    /\ out.hctx.user.name = "alice"

----------------------------------------------------------------------------
(* C23: after every sequence of Server::new, add_middleware, add_route and *)
(* generate_token the server's auth configuration is absent, and every     *)
(* call of Server::generate_token, whatever the claims and the expiry,     *)
(* returned None.                                                          *)
C23_AuthConfigAbsent ==
    /\ auth_config = NoAuthConfig
    /\ sres.called => sres.result = None

C23_Witness ==
    /\ sres.called
    /\ sres.sub = "bob"
    /\ sres.ttl = 60
    /\ ~sres.result.some
    /\ Len(routes) = 2
    /\ Len(middlewares) = 3
    /\ ~auth_config.some

====
